---- MODULE Spec2Model ----
(***************************************************************************)
(* Hajo pool lifecycle coordinator.                                        *)
(*                                                                         *)
(*   - the pools API route (frontend/app/api/pools/route.ts): GET and POST *)
(*     handlers over three JSON files, each handler a sequence of awaited  *)
(*     file operations that other requests may interleave with;            *)
(*   - the pool creation hook (frontend/hooks/useHajoContracts.ts).        *)
(*                                                                         *)
(* JavaScript strings are tuples of one-character strings, so that         *)
(* toLowerCase and slice act on characters.  An optional value is a tuple  *)
(* of length 0 (undefined / null) or 1 (the value).                        *)
(***************************************************************************)
EXTENDS Integers, Sequences, FiniteSets, TLC

(* ------------------------------ bounds -------------------------------- *)
\* requests the hosting runtime dispatches, possibly concurrently
MaxReqs == 2
\* Date.now() takes the values 0..MaxTime
MaxTime == 1
\* Math.random() suffixes are drawn from 1..RandomRange
RandomRange == 2
\* file-system operations that may fail in one run
MaxFaults == 1
\* create() calls on one orchestrator instance
MaxCreates == 2
\* times usePublicClient returns another client (a chain switch)
MaxClientChanges == 2
MaxLogs == 3

Reqs == 1..MaxReqs

(* ------------------------------ strings ------------------------------- *)
None == <<>>
Some(v) == <<v>>

\* String.prototype.toLowerCase on one character
LowerChar(c) ==
  CASE c = "A" -> "a" [] c = "B" -> "b" [] c = "C" -> "c" [] c = "D" -> "d"
    [] c = "E" -> "e" [] c = "F" -> "f" [] c = "G" -> "g" [] c = "H" -> "h"
    [] c = "I" -> "i" [] c = "J" -> "j" [] c = "K" -> "k" [] c = "L" -> "l"
    [] c = "M" -> "m" [] c = "N" -> "n" [] c = "O" -> "o" [] c = "P" -> "p"
    [] c = "Q" -> "q" [] c = "R" -> "r" [] c = "S" -> "s" [] c = "T" -> "t"
    [] c = "U" -> "u" [] c = "V" -> "v" [] c = "W" -> "w" [] c = "X" -> "x"
    [] c = "Y" -> "y" [] c = "Z" -> "z" [] OTHER -> c

toLowerCase(s) == [i \in 1..Len(s) |-> LowerChar(s[i])]

DigitValue(c) ==
  CASE c = "0" -> 0 [] c = "1" -> 1 [] c = "2" -> 2 [] c = "3" -> 3
    [] c = "4" -> 4 [] c = "5" -> 5 [] c = "6" -> 6 [] c = "7" -> 7
    [] c = "8" -> 8 [] c = "9" -> 9

RECURSIVE parseFloat(_)
\* parseFloat on a string of decimal digits
parseFloat(s) ==
  IF s = <<>> THEN 0
  ELSE 10 * parseFloat(SubSeq(s, 1, Len(s) - 1)) + DigitValue(s[Len(s)])

(* --------------------------- request inputs --------------------------- *)
sTest == <<"T", "e", "s", "t">>
sABC == <<"0", "x", "A", "B", "C">>
sabc == <<"0", "x", "a", "b", "c">>
sDEF == <<"0", "x", "D", "E", "F">>
sA1 == <<"0", "x", "A", "1">>
sB2 == <<"0", "x", "b", "2">>
sTok == <<"0", "x", "7", "0">>
sH1 == <<"0", "x", "h", "1">>
sFive == <<"5">>
sDaily == <<"d", "a", "i", "l", "y">>
sWeekly == <<"w", "e", "e", "k", "l", "y">>
sRotational == <<"r", "o", "t", "a", "t", "i", "o", "n", "a", "l">>
sTarget == <<"t", "a", "r", "g", "e", "t">>
\* process.env.NEXT_PUBLIC_TOKEN_ADDRESS, unset in this deployment
EnvTokenAddress == <<>>

\* A parsed JSON body: `keys` are the keys present, `members` a list of
\* addresses, every other field a string, roundDuration a number.
EmptyBody ==
  [ok |-> TRUE, keys |-> {}, name |-> <<>>, description |-> <<>>,
   poolType |-> <<>>, creatorAddress |-> <<>>, poolAddress |-> <<>>,
   tokenAddress |-> <<>>, members |-> <<>>, contributionAmount |-> <<>>,
   roundDuration |-> 0, frequency |-> <<>>, txHash |-> <<>>]

\* name, creatorAddress, poolAddress only
BodyMinimal ==
  [EmptyBody EXCEPT !.keys = {"name", "creatorAddress", "poolAddress"},
                    !.name = sTest, !.creatorAddress = sABC,
                    !.poolAddress = sDEF]

BodyEmptyMembers ==
  [BodyMinimal EXCEPT !.keys = @ \cup {"members"}, !.creatorAddress = sabc]

BodyOneMember ==
  [BodyMinimal EXCEPT !.keys = @ \cup {"members", "txHash"},
                      !.members = <<sA1>>, !.txHash = sH1]

BodyFull ==
  [ok |-> TRUE,
   keys |-> {"name", "description", "poolType", "creatorAddress",
             "poolAddress", "tokenAddress", "members", "contributionAmount",
             "roundDuration", "frequency", "txHash"},
   name |-> sTest, description |-> sTest, poolType |-> sTarget,
   creatorAddress |-> sDEF, poolAddress |-> sDEF, tokenAddress |-> sTok,
   members |-> <<sA1, sB2>>, contributionAmount |-> sFive,
   roundDuration |-> 86400, frequency |-> sDaily, txHash |-> sH1]

BodyNoName == [BodyOneMember EXCEPT !.keys = @ \ {"name"}, !.name = <<>>]
\* creatorAddress present but the empty string
BodyEmptyCreator == [BodyOneMember EXCEPT !.creatorAddress = <<>>]
BodyNoPoolAddress ==
  [BodyFull EXCEPT !.keys = @ \ {"poolAddress"}, !.poolAddress = <<>>]
\* a body for which request.json() or the destructuring throws (not JSON, null)
BodyUnreadable == [EmptyBody EXCEPT !.ok = FALSE]

Bodies ==
  {BodyMinimal, BodyEmptyMembers, BodyOneMember, BodyFull, BodyNoName,
   BodyEmptyCreator, BodyNoPoolAddress, BodyUnreadable}

\* ids generatePoolId can return
PoolIds == {<<"pool", t, k>> : t \in 0..MaxTime, k \in 1..RandomRange}

Queries ==
  {[id |-> Some(i), creator |-> None] : i \in PoolIds}
    \cup {[id |-> None, creator |-> Some(c)] : c \in {sABC, sabc, sDEF}}
    \cup {[id |-> None, creator |-> None]}

NoQuery == [id |-> None, creator |-> None]

(* ------------------------------- state -------------------------------- *)
VARIABLES
  dataDir,         \* whether DATA_DIR exists
  poolsFile,       \* POOLS_FILE: a sequence of Pool (an absent file reads as [])
  activitiesFile,  \* ACTIVITIES_FILE: a sequence of activities
  membersFile,     \* MEMBERS_FILE: pool id -> sequence of Member
  now,             \* Date.now()
  faults,          \* file-system operations that have failed
  pc,              \* where each request is in its handler
  kind,            \* "GET" or "POST"
  query,           \* a GET's search parameters
  body,            \* a POST's body
  loc,             \* a handler's locals: poolsData, poolActivityData,
                   \* poolMembersData, newPool, what it did to the store,
                   \* and what POOLS_FILE held when it read it
  resp             \* the response: status and JSON body

routeVars ==
  <<dataDir, poolsFile, activitiesFile, membersFile, now, faults, pc, kind,
    query, body, loc, resp>>

VARIABLES
  hash,            \* useWriteContract's data: the submitted transaction hash
  isPending,       \* useWriteContract's isPending
  isSuccess,       \* useWaitForTransactionReceipt's isSuccess for `hash`
  publicClient,    \* usePublicClient's client, absent or present
  poolAddress,     \* the useState cell
  calls,           \* extractPoolAddress calls whose promise is not settled
  issued,          \* transaction hashes the wallet has returned so far
  clientChanges,   \* times usePublicClient has returned another client
  scans,           \* per hash, how often extractPoolAddress was called
  confirmed        \* hashes whose confirmation succeeded

hookVars ==
  <<hash, isPending, isSuccess, publicClient, poolAddress, calls, issued,
    clientChanges, scans, confirmed>>

VARIABLES
  scanFetch,       \* what getTransactionReceipt does in one Scanner call
  scanOut,         \* how that extractPoolAddress call ended, once it has
  frequency,       \* useCreateRotational's frequency argument
  submitted        \* what create() passed as round duration, once called

pureVars == <<scanFetch, scanOut, frequency, submitted>>

EmptyMap == [x \in {} |-> <<>>]
NoPool == <<>>
NoLocals ==
  [poolsData |-> <<>>, poolActivityData |-> <<>>, poolMembersData |-> EmptyMap,
   newPool |-> NoPool, wrote |-> {}, readFailed |-> {}, writeFailed |-> {},
   dirFailed |-> FALSE, poolsAtRead |-> <<>>]
NoResp == [status |-> 0, json |-> <<>>]

RouteInit ==
  /\ dataDir = FALSE
  /\ poolsFile = <<>>
  /\ activitiesFile = <<>>
  /\ membersFile = EmptyMap
  /\ now = 0
  /\ faults = 0
  /\ pc = [r \in Reqs |-> "idle"]
  /\ kind = [r \in Reqs |-> "GET"]
  /\ query = [r \in Reqs |-> NoQuery]
  /\ body = [r \in Reqs |-> EmptyBody]
  /\ loc = [r \in Reqs |-> NoLocals]
  /\ resp = [r \in Reqs |-> NoResp]

(* ----------------------------- route.ts -------------------------------- *)
\* JavaScript truthiness of a string or list field of the body
Truthy(b, f) == f \in b.keys /\ b[f] # <<>>

\* the three collections a handler reads and writes
Files == {"pools", "activities", "members"}

\* readDataFile: the parsed file, or the default value when reading or
\* parsing throws (ok = FALSE)
readDataFile(content, defaultValue, ok) == IF ok THEN content ELSE defaultValue

\* writeDataFile: the file after fs.writeFile of the whole collection; a
\* write that throws (ok = FALSE) leaves the file as it was
writeDataFile(content, data, ok) == IF ok THEN data ELSE content

\* a handler that swallowed the exception of an awaited operation
AfterAwaitSwallowed(ok, next) == next

\* where a handler continues after an awaited operation: an exception goes
\* to the catch block of the handler
AfterAwait(ok, next) == IF ok THEN next ELSE "catch"

\* a validation that forgot poolAddress
MissingRequiredButPoolAddress(b) ==
  \/ ~Truthy(b, "name")
  \/ ~Truthy(b, "creatorAddress")

\* POST validation: !name || !creatorAddress || !poolAddress
MissingRequired(b) ==
  \/ ~Truthy(b, "name")
  \/ ~Truthy(b, "creatorAddress")
  \/ ~Truthy(b, "poolAddress")

\* generatePoolId: `pool_${Date.now()}_${random suffix}`
generatePoolId(t, k) == <<"pool", t, k>>

DefaultRoundDuration == 604800

\* the Pool record POST builds
NewPool(b, id, t) ==
  [id |-> id,
   name |-> b.name,
   description |-> IF "description" \in b.keys THEN Some(b.description) ELSE None,
   type |-> IF Truthy(b, "poolType") THEN b.poolType ELSE sRotational,
   status |-> "active",
   creator_address |-> toLowerCase(b.creatorAddress),
   contract_address |-> b.poolAddress,
   token_address |->
     IF Truthy(b, "tokenAddress") THEN b.tokenAddress ELSE EnvTokenAddress,
   members_count |-> IF "members" \in b.keys THEN Len(b.members) ELSE 0,
   total_saved |-> 0,
   progress |-> 0,
   frequency |-> IF Truthy(b, "frequency") THEN b.frequency ELSE sWeekly,
   next_payout |->
     t + (IF "roundDuration" \in b.keys /\ b.roundDuration # 0
          THEN b.roundDuration ELSE DefaultRoundDuration) * 1000,
   created_at |-> t,
   tx_hash |-> IF Truthy(b, "txHash") THEN Some(b.txHash) ELSE None]

\* a map that numbers the members from 1
MemberEntriesFromOne(b, id, t) ==
  [i \in 1..Len(b.members) |->
    [id |-> <<"member", id, i>>,
     member_address |-> toLowerCase(b.members[i]),
     contribution_amount |->
       parseFloat(IF Truthy(b, "contributionAmount")
                  THEN b.contributionAmount ELSE <<"0">>),
     status |-> "pending",
     joined_at |-> t]]

\* members.map(...): one Member per address, ordinal ids from 0
MemberEntries(b, id, t) ==
  [i \in 1..Len(b.members) |->
    [id |-> <<"member", id, i - 1>>,
     member_address |-> toLowerCase(b.members[i]),
     contribution_amount |->
       parseFloat(IF Truthy(b, "contributionAmount")
                  THEN b.contributionAmount ELSE <<"0">>),
     status |-> "pending",
     joined_at |-> t]]

\* the initial activity entry
CreatedActivity(b, id, t) ==
  [id |-> <<"activity", t>>,
   pool_id |-> id,
   activity_type |-> "created",
   user_address |-> b.creatorAddress,
   amount |-> None,
   description |-> <<"Pool created with ", Len(b.members), " members">>,
   created_at |-> t,
   tx_hash |-> IF "txHash" \in b.keys THEN Some(b.txHash) ELSE None]

\* poolMembersData[id] = entries
MapPut(m, k, v) == [x \in DOMAIN m \cup {k} |-> IF x = k THEN v ELSE m[x]]

\* poolMembersData[poolId] || []
MembersOf(m, id) == IF id \in DOMAIN m THEN m[id] ELSE <<>>

\* a handler that built the pool but did not push it onto poolsData
PostBuildWithoutPush(l, b, id, t) ==
  LET withPool == [l EXCEPT !.newPool = Some(NewPool(b, id, t))]
  IN IF Truthy(b, "members")
     THEN [withPool EXCEPT
             !.poolMembersData = MapPut(@, id, MemberEntries(b, id, t)),
             !.poolActivityData = Append(@, CreatedActivity(b, id, t))]
     ELSE withPool

\* a handler that records the 'created' activity whatever the member list
PostBuildAlwaysActivity(l, b, id, t) ==
  LET withPool == [l EXCEPT !.newPool = Some(NewPool(b, id, t)),
                            !.poolsData = Append(@, NewPool(b, id, t)),
                            !.poolActivityData =
                              Append(@, CreatedActivity(b, id, t))]
  IN IF Truthy(b, "members")
     THEN [withPool EXCEPT
             !.poolMembersData = MapPut(@, id, MemberEntries(b, id, t))]
     ELSE withPool

\* the locals of POST once the records are built: the new pool pushed, and for a
\* non-empty member list the member entries and the activity added
PostBuild(l, b, id, t) ==
  LET withPool == [l EXCEPT !.newPool = Some(NewPool(b, id, t)),
                            !.poolsData = Append(@, NewPool(b, id, t))]
  IN IF Truthy(b, "members")
     THEN [withPool EXCEPT
             !.poolMembersData = MapPut(@, id, MemberEntries(b, id, t)),
             !.poolActivityData = Append(@, CreatedActivity(b, id, t))]
     ELSE withPool

\* a find whose predicate accepts every pool
FindPoolAny(poolsData, id) == 1..Len(poolsData)

\* poolsData.find(p => p.id === poolId): the indices that match
FindPool(poolsData, id) == {i \in 1..Len(poolsData) : poolsData[i].id = id}

Min(S) == CHOOSE x \in S : \A y \in S : x <= y

\* pool.creator_address.toLowerCase() === creator.toLowerCase()
SameCreatorExact(p, c) == p.creator_address = c

SameCreator(p, c) == toLowerCase(p.creator_address) = toLowerCase(c)

\* the response of GET from the three collections it read
GetResponse(q, poolsData, poolActivityData, poolMembersData) ==
  IF q.id # None /\ q.id[1] # <<>>
  THEN IF FindPool(poolsData, q.id[1]) = {}
       THEN [status |-> 404, json |-> "Pool not found"]
       ELSE [status |-> 200,
             json |->
               poolsData[Min(FindPool(poolsData, q.id[1]))]
                 @@ [pool_activity |->
                       SelectSeq(poolActivityData,
                                 LAMBDA a : a.pool_id = q.id[1]),
                     pool_members |-> MembersOf(poolMembersData, q.id[1])]]
  ELSE IF q.creator # None /\ q.creator[1] # <<>>
  THEN [status |-> 200,
        json |-> SelectSeq(poolsData, LAMBDA p : SameCreator(p, q.creator[1]))]
  ELSE [status |-> 200, json |-> poolsData]

InternalServerError == [status |-> 500, json |-> "Internal server error"]
MissingRequiredFields == [status |-> 400, json |-> "Missing required fields"]

(* --------------------------- request steps ---------------------------- *)
\* a failing file-system operation is drawn only while the fault budget lasts
MayFail(ok) == ok \/ faults < MaxFaults
CountFault(ok) == faults' = IF ok THEN faults ELSE faults + 1

\* the handler of request r goes on to `next`, or answers 500 from its catch
Continue(r, next) ==
  IF next = "catch"
  THEN /\ pc' = [pc EXCEPT ![r] = "done"]
       /\ resp' = [resp EXCEPT ![r] = InternalServerError]
  ELSE /\ pc' = [pc EXCEPT ![r] = next]
       /\ UNCHANGED resp

Finish(r, response) ==
  /\ pc' = [pc EXCEPT ![r] = "done"]
  /\ resp' = [resp EXCEPT ![r] = response]

\* requests are dispatched in the order of their numbers
Dispatchable(r) == pc[r] = "idle" /\ \A q \in Reqs : q < r => pc[q] # "idle"

DispatchGET(r) ==
  /\ Dispatchable(r)
  /\ \E q \in Queries : query' = [query EXCEPT ![r] = q]
  /\ kind' = [kind EXCEPT ![r] = "GET"]
  /\ pc' = [pc EXCEPT ![r] = "ensureDir"]
  /\ UNCHANGED <<hookVars, pureVars>>
  /\ UNCHANGED <<dataDir, poolsFile, activitiesFile, membersFile, now, faults,
                 body, loc, resp>>

DispatchPOST(r) ==
  /\ Dispatchable(r)
  /\ \E b \in Bodies : body' = [body EXCEPT ![r] = b]
  /\ kind' = [kind EXCEPT ![r] = "POST"]
  /\ pc' = [pc EXCEPT ![r] = "ensureDir"]
  /\ UNCHANGED <<hookVars, pureVars>>
  /\ UNCHANGED <<dataDir, poolsFile, activitiesFile, membersFile, now, faults,
                 query, loc, resp>>

\* ensureDataDir: fs.access, and fs.mkdir when the directory is not there;
\* a mkdir that throws is caught by the handler
EnsureDataDir(r) ==
  /\ pc[r] = "ensureDir"
  /\ \E ok \in BOOLEAN :
       /\ MayFail(ok)
       /\ dataDir => ok
       /\ dataDir' = (dataDir \/ ok)
       /\ CountFault(ok)
       /\ loc' = [loc EXCEPT ![r].dirFailed = ~ok]
       /\ Continue(r, AfterAwait(ok, IF kind[r] = "GET" THEN "readPools"
                                                        ELSE "parse"))
  /\ UNCHANGED <<hookVars, pureVars>>
  /\ UNCHANGED <<poolsFile, activitiesFile, membersFile, now, kind, query, body>>

\* POST: request.json(), the destructuring and the validation
PostParse(r) ==
  /\ pc[r] = "parse"
  /\ kind[r] = "POST"
  /\ IF ~body[r].ok
     THEN Continue(r, AfterAwait(FALSE, "readPools"))
     ELSE IF MissingRequired(body[r])
     THEN Finish(r, MissingRequiredFields)
     ELSE Continue(r, "readPools")
  /\ UNCHANGED <<hookVars, pureVars>>
  /\ UNCHANGED <<dataDir, poolsFile, activitiesFile, membersFile, now, faults,
                 kind, query, body, loc>>

\* readDataFile(POOLS_FILE, []) of GET and of POST
ReadPools(r) ==
  /\ pc[r] = "readPools"
  /\ \E ok \in BOOLEAN :
       /\ MayFail(ok)
       /\ CountFault(ok)
       /\ loc' = [loc EXCEPT
                    ![r].poolsData = readDataFile(poolsFile, <<>>, ok),
                    ![r].readFailed = IF ok THEN @ ELSE @ \cup {"pools"},
                    ![r].poolsAtRead = poolsFile]
  /\ pc' = [pc EXCEPT ![r] = "readActivities"]
  /\ UNCHANGED <<hookVars, pureVars>>
  /\ UNCHANGED <<dataDir, poolsFile, activitiesFile, membersFile, now, kind,
                 query, body, resp>>

\* readDataFile(ACTIVITIES_FILE, []) of GET and of POST
ReadActivities(r) ==
  /\ pc[r] = "readActivities"
  /\ \E ok \in BOOLEAN :
       /\ MayFail(ok)
       /\ CountFault(ok)
       /\ loc' = [loc EXCEPT
                    ![r].poolActivityData = readDataFile(activitiesFile, <<>>, ok),
                    ![r].readFailed = IF ok THEN @ ELSE @ \cup {"activities"}]
  /\ pc' = [pc EXCEPT ![r] = "readMembers"]
  /\ UNCHANGED <<hookVars, pureVars>>
  /\ UNCHANGED <<dataDir, poolsFile, activitiesFile, membersFile, now, kind,
                 query, body, resp>>

\* GET: readDataFile(MEMBERS_FILE, {}) and the response
GetReadMembers(r) ==
  /\ pc[r] = "readMembers"
  /\ kind[r] = "GET"
  /\ \E ok \in BOOLEAN :
       /\ MayFail(ok)
       /\ CountFault(ok)
       /\ loc' = [loc EXCEPT
                    ![r].poolMembersData = readDataFile(membersFile, EmptyMap, ok),
                    ![r].readFailed = IF ok THEN @ ELSE @ \cup {"members"}]
       /\ Finish(r, GetResponse(query[r], loc[r].poolsData,
                                loc[r].poolActivityData,
                                readDataFile(membersFile, EmptyMap, ok)))
  /\ UNCHANGED <<hookVars, pureVars>>
  /\ UNCHANGED <<dataDir, poolsFile, activitiesFile, membersFile, now, kind,
                 query, body>>

\* POST: readDataFile(MEMBERS_FILE, {}), then the new pool, its members and
\* its activity are added to the handler's copies (no await in between)
PostReadMembers(r) ==
  /\ pc[r] = "readMembers"
  /\ kind[r] = "POST"
  /\ \E ok \in BOOLEAN, k \in 1..RandomRange :
       /\ MayFail(ok)
       /\ CountFault(ok)
       /\ loc' = [loc EXCEPT ![r] =
            PostBuild([loc[r] EXCEPT
                         !.poolMembersData = readDataFile(membersFile, EmptyMap, ok),
                         !.readFailed = IF ok THEN @ ELSE @ \cup {"members"}],
                      body[r], generatePoolId(now, k), now)]
  /\ pc' = [pc EXCEPT ![r] = "writePools"]
  /\ UNCHANGED <<hookVars, pureVars>>
  /\ UNCHANGED <<dataDir, poolsFile, activitiesFile, membersFile, now, kind,
                 query, body, resp>>

\* what a write step records in the handler's locals
Wrote(l, f, ok) ==
  [l EXCEPT !.wrote = IF ok THEN @ \cup {f} ELSE @,
            !.writeFailed = IF ok THEN @ ELSE @ \cup {f}]

\* POST: await writeDataFile(POOLS_FILE, poolsData)
PostWritePools(r) ==
  /\ pc[r] = "writePools"
  /\ \E ok \in BOOLEAN :
       /\ MayFail(ok)
       /\ CountFault(ok)
       /\ poolsFile' = writeDataFile(poolsFile, loc[r].poolsData, ok)
       /\ loc' = [loc EXCEPT ![r] = Wrote(@, "pools", ok)]
       /\ Continue(r, AfterAwait(ok, "writeActivities"))
  /\ UNCHANGED <<hookVars, pureVars>>
  /\ UNCHANGED <<dataDir, activitiesFile, membersFile, now, kind, query, body>>

\* POST: await writeDataFile(ACTIVITIES_FILE, poolActivityData)
PostWriteActivities(r) ==
  /\ pc[r] = "writeActivities"
  /\ \E ok \in BOOLEAN :
       /\ MayFail(ok)
       /\ CountFault(ok)
       /\ activitiesFile' = writeDataFile(activitiesFile, loc[r].poolActivityData, ok)
       /\ loc' = [loc EXCEPT ![r] = Wrote(@, "activities", ok)]
       /\ Continue(r, AfterAwait(ok, "writeMembers"))
  /\ UNCHANGED <<hookVars, pureVars>>
  /\ UNCHANGED <<dataDir, poolsFile, membersFile, now, kind, query, body>>

\* POST: await writeDataFile(MEMBERS_FILE, poolMembersData), then 201
PostWriteMembers(r) ==
  /\ pc[r] = "writeMembers"
  /\ \E ok \in BOOLEAN :
       /\ MayFail(ok)
       /\ CountFault(ok)
       /\ membersFile' = writeDataFile(membersFile, loc[r].poolMembersData, ok)
       /\ loc' = [loc EXCEPT ![r] = Wrote(@, "members", ok)]
       /\ IF AfterAwait(ok, "respond") = "respond"
          THEN Finish(r, [status |-> 201, json |-> loc[r].newPool[1]])
          ELSE Continue(r, "catch")
  /\ UNCHANGED <<hookVars, pureVars>>
  /\ UNCHANGED <<dataDir, poolsFile, activitiesFile, now, kind, query, body>>

\* the clock advances
Tick ==
  /\ now < MaxTime
  /\ now' = now + 1
  /\ UNCHANGED <<hookVars, pureVars>>
  /\ UNCHANGED <<dataDir, poolsFile, activitiesFile, membersFile, faults, pc,
                 kind, query, body, loc, resp>>

RouteNext ==
  \/ Tick
  \/ \E r \in Reqs : DispatchGET(r)
  \/ \E r \in Reqs : DispatchPOST(r)
  \/ \E r \in Reqs : EnsureDataDir(r)
  \/ \E r \in Reqs : PostParse(r)
  \/ \E r \in Reqs : ReadPools(r)
  \/ \E r \in Reqs : ReadActivities(r)
  \/ \E r \in Reqs : GetReadMembers(r)
  \/ \E r \in Reqs : PostReadMembers(r)
  \/ \E r \in Reqs : PostWritePools(r)
  \/ \E r \in Reqs : PostWriteActivities(r)
  \/ \E r \in Reqs : PostWriteMembers(r)

(* ------------------------- useHajoContracts.ts ------------------------- *)
Rep(c, n) == [i \in 1..n |-> c]

\* process.env.NEXT_PUBLIC_FACTORY_ADDRESS as configured
FACTORY_ADDRESS == <<"0", "x", "F", "a", "c">>

\* hex characters kept from a topic: the low-order 20 bytes
AddressHexLen == 40

HexChars ==
  {"0", "1", "2", "3", "4", "5", "6", "7", "8", "9", "a", "b", "c", "d", "e",
   "f", "A", "B", "C", "D", "E", "F"}

\* s.slice(-40)
SliceLast(s) ==
  IF Len(s) <= AddressHexLen THEN s
  ELSE SubSeq(s, Len(s) - AddressHexLen + 1, Len(s))

\* poolAddr.match(/^0x[a-fA-F0-9]{40}$/) for poolAddr = '0x' + tail
MatchesAddress(tail) ==
  Len(tail) = AddressHexLen /\ \A i \in 1..Len(tail) : tail[i] \in HexChars

\* how a block of code ends: it throws, runs to its end, or returns v
Throws == [k |-> "throw", v |-> None]
FallsThrough == [k |-> "continue", v |-> None]
Returns(v) == [k |-> "return", v |-> v]

\* the try block of one iteration of the loop over receipt.logs.  A log's
\* address and topics are optional: reading a property of undefined throws.
LogTry(log) ==
  IF log.address = None THEN Throws
  ELSE IF toLowerCase(log.address[1]) # toLowerCase(FACTORY_ADDRESS)
  THEN FallsThrough
  ELSE IF log.topics = None THEN Throws
  ELSE IF Len(log.topics[1]) >= 2 /\ MatchesAddress(SliceLast(log.topics[1][2]))
  THEN Returns(Some(<<"0", "x">> \o SliceLast(log.topics[1][2])))
  ELSE FallsThrough

\* catch (e) { continue } around one iteration
LogCatchRethrows(o) == o

LogCatch(o) == IF o.k = "throw" THEN FallsThrough ELSE o

\* one iteration of the loop: continue with the next log, or return
LogResult(log) == LogCatch(LogTry(log))

RECURSIVE ScanLogs(_)
\* for (const log of receipt.logs): the first iteration that does not continue
ScanLogs(logs) ==
  IF logs = <<>> THEN FallsThrough
  ELSE IF LogResult(Head(logs)).k # "continue" THEN LogResult(Head(logs))
  ELSE ScanLogs(Tail(logs))

\* the outer try block.  `fetch` is what getTransactionReceipt did: it threw
\* (ok = FALSE) or returned a receipt, which may be absent or lack logs
ScanTry(fetch) ==
  IF ~fetch.ok THEN Throws
  ELSE IF fetch.receipt = None THEN Returns(None)
  ELSE IF fetch.receipt[1].logs = None THEN Returns(None)
  ELSE IF Len(fetch.receipt[1].logs[1]) = 0 THEN Returns(None)
  ELSE ScanLogs(fetch.receipt[1].logs[1])

\* catch (err) { console.error(...) } around the whole body
ScanCatchRethrows(o) == o

ScanCatch(o) == IF o.k = "throw" THEN FallsThrough ELSE o

\* extractPoolAddress as a whole: the promise rejects (threw) or resolves
\* with value; falling out of the try statement reaches `return null`
extractOutcome(fetch) ==
  LET o == ScanCatch(ScanTry(fetch))
  IN  IF o.k = "throw" THEN [threw |-> TRUE, value |-> None]
      ELSE [threw |-> FALSE, value |-> o.v]

\* the value extractPoolAddress resolves with
extractPoolAddress(fetch) == extractOutcome(fetch).value

\* sample receipts
TopicSig == <<"0", "x", "5", "1", "9">>
Addr1 == Rep("0", 34) \o <<"a", "b", "c", "1", "2", "3">>
Addr2 == Rep("F", 38) \o <<"0", "9">>
TopicOf(addr) == <<"0", "x">> \o Rep("0", 24) \o addr
Log(address, topics) == [address |-> Some(address), topics |-> Some(topics)]
sOther == <<"0", "x", "0", "0", "1">>
sFAC == <<"0", "X", "f", "A", "C">>

Receipt(logs) == Some([logs |-> Some(logs)])

\* the receipt the chain holds for each transaction hash
ReceiptOf(h) ==
  CASE h % 3 = 1 ->
         Receipt(<<Log(sOther, <<TopicSig, TopicOf(Addr2)>>),
                   [address |-> None, topics |-> None],
                   Log(sFAC, <<TopicSig>>),
                   Log(sFAC, <<TopicSig, TopicOf(Addr1)>>),
                   Log(FACTORY_ADDRESS, <<TopicSig, TopicOf(Addr2)>>)>>)
    [] h % 3 = 2 -> Receipt(<<Log(sOther, <<TopicSig, TopicOf(Addr1)>>)>>)
    [] OTHER -> Receipt(<<Log(FACTORY_ADDRESS, <<TopicSig, TopicOf(Addr2)>>)>>)

\* what the Scanner returns for hash h when the receipt fetch succeeds
ScanOf(h) == extractPoolAddress([ok |-> TRUE, receipt |-> ReceiptOf(h)])

Hashes == 1..MaxCreates
Clients == {1, 2}

HookInit ==
  /\ hash = None
  /\ isPending = FALSE
  /\ isSuccess = FALSE
  /\ publicClient = Some(1)
  /\ poolAddress = None
  /\ calls = {}
  /\ issued = 0
  /\ clientChanges = 0
  /\ scans = [h \in Hashes |-> 0]
  /\ confirmed = {}

\* the condition of the effect: isSuccess && data && publicClient
EffectFires(success, data, client) == success /\ data # None /\ client # None

\* useEffect(..., [isSuccess, data, publicClient]) after a render in which
\* a dependency changed: extractPoolAddress(publicClient, data) is called
RunEffect ==
  IF <<isSuccess', hash', publicClient'>> # <<isSuccess, hash, publicClient>>
     /\ EffectFires(isSuccess', hash', publicClient')
  THEN /\ calls' = calls \cup {[hash |-> hash'[1], n |-> scans[hash'[1]] + 1]}
       /\ scans' = [scans EXCEPT ![hash'[1]] = @ + 1]
  ELSE UNCHANGED <<calls, scans>>

\* create(): writeContract starts a mutation, which resets `data`
Create ==
  /\ issued < MaxCreates
  /\ hash' = None
  /\ isPending' = TRUE
  /\ isSuccess' = FALSE
  /\ UNCHANGED <<publicClient, poolAddress, issued, clientChanges, confirmed>>
  /\ UNCHANGED <<routeVars, pureVars>>
  /\ RunEffect

\* the wallet returns the hash of the submitted transaction
SubmitResolves ==
  /\ isPending
  /\ issued < MaxCreates
  /\ issued' = issued + 1
  /\ hash' = Some(issued + 1)
  /\ isPending' = FALSE
  /\ isSuccess' = FALSE
  /\ UNCHANGED <<publicClient, poolAddress, clientChanges, confirmed>>
  /\ UNCHANGED <<routeVars, pureVars>>
  /\ RunEffect

\* the wallet rejects the submission
SubmitRejects ==
  /\ isPending
  /\ isPending' = FALSE
  /\ UNCHANGED <<hash, isSuccess, publicClient, poolAddress, calls, issued,
                 clientChanges, scans, confirmed>>
  /\ UNCHANGED <<routeVars, pureVars>>

\* useWaitForTransactionReceipt reports the receipt of `hash`
Confirm ==
  /\ hash # None
  /\ ~isSuccess
  /\ isSuccess' = TRUE
  /\ confirmed' = confirmed \cup {hash[1]}
  /\ UNCHANGED <<hash, publicClient>>
  /\ UNCHANGED <<isPending, poolAddress, issued, clientChanges>>
  /\ UNCHANGED <<routeVars, pureVars>>
  /\ RunEffect

\* usePublicClient returns another client, or none
ClientChanges ==
  /\ clientChanges < MaxClientChanges
  /\ clientChanges' = clientChanges + 1
  /\ \E c \in {None} \cup {Some(x) : x \in Clients} :
       /\ c # publicClient
       /\ publicClient' = c
  /\ UNCHANGED <<hash, isSuccess>>
  /\ UNCHANGED <<isPending, poolAddress, issued, confirmed>>
  /\ UNCHANGED <<routeVars, pureVars>>
  /\ RunEffect

\* the promise of one extractPoolAddress call settles and its then-callback
\* runs: setPoolAddress(addr)
ScanSettles ==
  /\ \E c \in calls, ok \in BOOLEAN :
       /\ calls' = calls \ {c}
       /\ poolAddress' =
            extractPoolAddress([ok |-> ok, receipt |-> ReceiptOf(c.hash)])
  /\ UNCHANGED <<hash, isPending, isSuccess, publicClient, issued,
                 clientChanges, scans, confirmed>>
  /\ UNCHANGED <<routeVars, pureVars>>

HookNext ==
  \/ Create
  \/ SubmitResolves
  \/ SubmitRejects
  \/ Confirm
  \/ ClientChanges
  \/ ScanSettles

(* ------------------- one call of a function of the hook ---------------- *)
sBiweekly == <<"b", "i", "w", "e", "e", "k", "l", "y">>
sMonthly == <<"m", "o", "n", "t", "h", "l", "y">>
sYearly == <<"y", "e", "a", "r", "l", "y">>
sDailyCapital == <<"D", "a", "i", "l", "y">>
sConstructor == <<"c", "o", "n", "s", "t", "r", "u", "c", "t", "o", "r">>
sToString == <<"t", "o", "S", "t", "r", "i", "n", "g">>

\* the scheduling table of useCreateRotational
frequencyMap ==
  (sDaily :> 86400) @@ (sWeekly :> 604800) @@ (sBiweekly :> 1209600)
    @@ (sMonthly :> 2592000)

\* the literal after || in the definition of roundDuration
FallbackRoundDuration == 604800

\* the properties an object literal inherits from Object.prototype: all of
\* them functions, but __proto__, which is an object
ObjectPrototypeKeys ==
  {<<"c", "o", "n", "s", "t", "r", "u", "c", "t", "o", "r">>,
   <<"h", "a", "s", "O", "w", "n", "P", "r", "o", "p", "e", "r", "t", "y">>,
   <<"i", "s", "P", "r", "o", "t", "o", "t", "y", "p", "e", "O", "f">>,
   <<"p", "r", "o", "p", "e", "r", "t", "y", "I", "s", "E", "n", "u", "m", "e", "r", "a", "b", "l", "e">>,
   <<"t", "o", "L", "o", "c", "a", "l", "e", "S", "t", "r", "i", "n", "g">>,
   <<"t", "o", "S", "t", "r", "i", "n", "g">>,
   <<"v", "a", "l", "u", "e", "O", "f">>,
   <<"_", "_", "p", "r", "o", "t", "o", "_", "_">>,
   <<"_", "_", "d", "e", "f", "i", "n", "e", "G", "e", "t", "t", "e", "r", "_", "_">>,
   <<"_", "_", "d", "e", "f", "i", "n", "e", "S", "e", "t", "t", "e", "r", "_", "_">>,
   <<"_", "_", "l", "o", "o", "k", "u", "p", "G", "e", "t", "t", "e", "r", "_", "_">>,
   <<"_", "_", "l", "o", "o", "k", "u", "p", "S", "e", "t", "t", "e", "r", "_", "_">>}

\* frequencyMap[k]: an own property, else an inherited one, else undefined
PropertyOf(k) ==
  IF k \in DOMAIN frequencyMap THEN [t |-> "number", n |-> frequencyMap[k]]
  ELSE IF k \in ObjectPrototypeKeys THEN [t |-> "object", n |-> 0]
  ELSE [t |-> "undefined", n |-> 0]

\* the left operand of || is kept when it is truthy
IsTruthy(v) == v.t = "object" \/ (v.t = "number" /\ v.n # 0)

\* const roundDuration = frequencyMap[frequency] || 604800
roundDuration(k) ==
  IF IsTruthy(PropertyOf(k)) THEN PropertyOf(k)
  ELSE [t |-> "number", n |-> FallbackRoundDuration]

\* BigInt(v): the integer, or a SyntaxError for a function or an object
BigInt(v) == IF v.t = "number" THEN Returns(v.n) ELSE Throws

\* the third argument create() hands to writeContract, if it gets that far
CreateArgs(k) == BigInt(roundDuration(k))

Frequencies ==
  {sDaily, sWeekly, sBiweekly, sMonthly, sYearly, sDailyCapital, <<>>,
   sConstructor, sToString}

\* logs a receipt can hold
LogPool ==
  {Log(sOther, <<TopicSig, TopicOf(Addr2)>>),
   [address |-> None, topics |-> None],
   [address |-> Some(FACTORY_ADDRESS), topics |-> None],
   Log(sFAC, <<TopicSig>>),
   Log(sFAC, <<TopicSig, TopicOf(Addr1)>>),
   Log(FACTORY_ADDRESS, <<TopicSig, Rep("z", 3) \o Addr2>>),
   Log(FACTORY_ADDRESS, <<TopicSig, Addr2>>),
   Log(FACTORY_ADDRESS, <<TopicSig, TopicSig>>)}

LogSeqs == UNION {[1..n -> LogPool] : n \in 0..MaxLogs}

\* what getTransactionReceipt can do
Fetches ==
  {[ok |-> FALSE, receipt |-> None], [ok |-> TRUE, receipt |-> None],
   [ok |-> TRUE, receipt |-> Some([logs |-> None])]}
    \cup {[ok |-> TRUE, receipt |-> Receipt(l)] : l \in LogSeqs}

PureIdle ==
  /\ scanFetch = [ok |-> FALSE, receipt |-> None]
  /\ scanOut = None
  /\ frequency = sWeekly
  /\ submitted = None

PureInit ==
  /\ scanFetch \in Fetches
  /\ scanOut = None
  /\ frequency \in Frequencies
  /\ submitted = None

\* extractPoolAddress(publicClient, txHash) runs to its end
ScanCall ==
  /\ scanOut = None
  /\ scanOut' = Some(extractOutcome(scanFetch))
  /\ UNCHANGED <<scanFetch, frequency, submitted, routeVars, hookVars>>

\* create() evaluates its arguments
CreateCall ==
  /\ submitted = None
  /\ submitted' = Some(CreateArgs(frequency))
  /\ UNCHANGED <<scanFetch, scanOut, frequency, routeVars, hookVars>>

PureNext ==
  \/ ScanCall
  \/ CreateCall

vars == <<routeVars, hookVars, pureVars>>

Init == RouteInit /\ HookInit /\ PureIdle

\* the pools API under concurrently dispatched requests
Spec == Init /\ [][RouteNext]_vars

\* one instance of useCreateRotational
HookSpec == Init /\ [][HookNext]_vars

\* the hook when every pending getTransactionReceipt promise settles
HookFairSpec == Init /\ [][HookNext]_vars /\ WF_vars(ScanSettles)

\* the store empty, the hook mounted, and the arguments of the two calls drawn
PureStart == RouteInit /\ HookInit /\ PureInit

\* single calls of extractPoolAddress and of create(), on every input
PureSpec == PureStart /\ [][PureNext]_vars

(* ------------------------------ claims -------------------------------- *)
Range(f) == {f[i] : i \in DOMAIN f}

Posted(r) == kind[r] = "POST" /\ pc[r] = "done"

Required == {"name", "creatorAddress", "poolAddress"}

\* a JSON object body in which a required field is absent or empty
LacksRequired(b) == b.ok /\ \E f \in Required : f \notin b.keys \/ b[f] = <<>>

\* C1 as stated: every create request whose name, creatorAddress or
\* poolAddress is missing or empty is answered with status 400.
C1_MissingFieldAlways400 ==
  \A r \in Reqs : Posted(r) /\ LacksRequired(body[r]) => resp[r].status = 400

\* C1 amended: a step of a create request whose name, creatorAddress or
\* poolAddress is missing or empty leaves the pools, members and activities
\* collections as they are and never reaches a read or a write of them; the
\* request ends with status 400, or with 500 when the data directory could
\* not be created.
C1_MissingFieldWritesNothing ==
  [][\A r \in Reqs :
       (kind'[r] = "POST" /\ LacksRequired(body'[r]) /\ pc'[r] # pc[r]) =>
         /\ UNCHANGED <<poolsFile, activitiesFile, membersFile>>
         /\ pc'[r] \in {"ensureDir", "parse", "done"}
         /\ pc'[r] = "done" =>
              resp'[r].status = IF loc'[r].dirFailed THEN 500 ELSE 400]_vars

\* C1 witness: a create request without a required field was answered 400
\* while the store already held a pool.
C1_Witness ==
  \E r \in Reqs :
    /\ Posted(r)
    /\ LacksRequired(body[r])
    /\ resp[r].status = 400
    /\ poolsFile # <<>>

Created(r) == Posted(r) /\ resp[r].status = 201

\* C2: last writer wins.  Without any file-system failure, the pool of a
\* create request that returned 201 is missing from the pools collection
\* only when the collection is exactly the copy another request wrote, a
\* copy read before that pool was stored.
C2_LastWriterWins ==
  faults = 0 =>
    \A r \in Reqs :
      (Created(r) /\ loc[r].newPool[1] \notin Range(poolsFile)) =>
        \E q \in Reqs \ {r} :
          /\ kind[q] = "POST"
          /\ "pools" \in loc[q].wrote
          /\ poolsFile = loc[q].poolsData

\* C2 witness: two create requests both returned 201, no file operation
\* failed, their pools have different ids, and the pools collection holds
\* only one of the two.
C2_LostUpdate ==
  \E r, q \in Reqs :
    /\ r # q
    /\ Created(r)
    /\ Created(q)
    /\ faults = 0
    /\ loc[r].newPool[1].id # loc[q].newPool[1].id
    /\ Len(poolsFile) = 1
    /\ poolsFile[1] = loc[q].newPool[1]

\* C3: a create request answers 201 only when it has written all three
\* collections and none of its writes failed; a request one of whose writes
\* failed answers 500.
C3_Created201OnlyAfterAllWrites ==
  \A r \in Reqs :
    Posted(r) =>
      /\ resp[r].status = 201 =>
           loc[r].wrote = Files /\ loc[r].writeFailed = {}
      /\ loc[r].writeFailed # {} => resp[r].status = 500

\* C3 witness: the pools write succeeded, the activities write failed, and
\* the request answered 500.
C3_Witness ==
  \E r \in Reqs :
    /\ Posted(r)
    /\ loc[r].wrote = {"pools"}
    /\ loc[r].writeFailed = {"activities"}
    /\ resp[r].status = 500

InPools(id) == \E i \in 1..Len(poolsFile) : poolsFile[i].id = id
InActivities(id) ==
  \E i \in 1..Len(activitiesFile) : activitiesFile[i].pool_id = id

\* C4 as stated: once a create request with members has ended, the store
\* does not hold its pool without its member records and its activity.
C4_NoPartialPersistence ==
  \A r \in Reqs :
    (Posted(r) /\ loc[r].newPool # NoPool /\ Truthy(body[r], "members")) =>
      LET id == loc[r].newPool[1].id
      IN InPools(id) => (id \in DOMAIN membersFile /\ InActivities(id))

\* every dispatched request has ended, and every create request among them
\* that passed validation returned 201
AllCreated ==
  \A r \in Reqs :
    /\ pc[r] \in {"idle", "done"}
    /\ Posted(r) => resp[r].status \in {201, 400}

\* the pools in the pools collection have pairwise distinct ids
StoredIdsDistinct ==
  \A i, j \in 1..Len(poolsFile) : i # j => poolsFile[i].id # poolsFile[j].id

\* the pools create requests have built have pairwise distinct ids
BuiltIdsDistinct ==
  \A r, q \in Reqs :
    (r # q /\ loc[r].newPool # NoPool /\ loc[q].newPool # NoPool) =>
      loc[r].newPool[1].id # loc[q].newPool[1].id

\* C5 as stated: after create requests that returned 201, with no failed
\* file operation and no two pools sharing an id, getPoolById returns for
\* every stored id as many pool_members as the pool's members_count.
C5_MembersMatchCount ==
  (AllCreated /\ faults = 0 /\ BuiltIdsDistinct) =>
    \A id \in PoolIds :
      InPools(id) =>
        LET got == GetResponse([id |-> Some(id), creator |-> None],
                               poolsFile, activitiesFile, membersFile)
        IN Len(got.json.pool_members) = got.json.members_count

\* C6 as stated: the ids of the pools create requests have built, and of
\* the pools stored, are pairwise distinct.
C6_PoolIdsDistinct == BuiltIdsDistinct /\ StoredIdsDistinct

\* C7 as stated: an activity that is in the activities collection is still
\* in it, unchanged, after every step.
C7_ActivitiesAppendOnly ==
  [][\A a \in Range(activitiesFile) : a \in Range(activitiesFile')]_vars

\* C8 as stated: a request during which a file-system operation failed
\* answers 500.
C8_StoreFailureGives500 ==
  \A r \in Reqs :
    (pc[r] = "done"
       /\ (loc[r].readFailed # {} \/ loc[r].writeFailed # {} \/ loc[r].dirFailed))
      => resp[r].status = 500

\* C9 as stated: the Scanner is called at most once for a hash, and only for
\* a hash whose confirmation succeeded.
C9_ScannedOncePerConfirmedHash ==
  \A h \in Hashes : scans[h] <= (IF h \in confirmed THEN 1 ELSE 0)

\* C10 as stated: a non-null poolAddress is the Scanner's result for the
\* hash currently exposed, whose confirmation succeeded.
C10_AddressOnlyForConfirmedHash ==
  poolAddress # None =>
    /\ isSuccess
    /\ hash # None
    /\ poolAddress = ScanOf(hash[1])

\* the logs of the receipt a fetch returned, none when there is no receipt
LogsOf(fetch) ==
  IF fetch.ok /\ fetch.receipt # None /\ fetch.receipt[1].logs # None
  THEN fetch.receipt[1].logs[1]
  ELSE <<>>

\* the log was emitted by the factory address, letter case ignored
FromFactory(log) ==
  /\ log.address # None
  /\ Len(log.address[1]) = Len(FACTORY_ADDRESS)
  /\ \A i \in 1..Len(FACTORY_ADDRESS) :
       LowerChar(log.address[1][i]) = LowerChar(FACTORY_ADDRESS[i])

\* C11: a call of the Scanner never throws, and it returns null when the
\* receipt fetch fails, when there is no receipt, when the receipt has no
\* logs, and when no log's address is the factory address ignoring case.
C11_ScannerNeverThrows ==
  scanOut # None =>
    /\ ~scanOut[1].threw
    /\ (\A i \in 1..Len(LogsOf(scanFetch)) : ~FromFactory(LogsOf(scanFetch)[i]))
         => scanOut[1].value = None

\* a call that ended on a receipt whose logs are all foreign or malformed
C11_Witness ==
  /\ scanOut # None
  /\ Len(LogsOf(scanFetch)) = MaxLogs
  /\ \E i \in 1..MaxLogs : LogsOf(scanFetch)[i].address = None
  /\ \E i \in 1..MaxLogs : LogsOf(scanFetch)[i].address = Some(sOther)
  /\ scanOut[1] = [threw |-> FALSE, value |-> None]

\* the last 40 characters of a topic, when it has that many
Last40(t) == [i \in 1..AddressHexLen |-> t[Len(t) - AddressHexLen + i]]

\* a factory log with two topics or more whose second topic ends in 40
\* hexadecimal characters
Qualifies(log) ==
  /\ FromFactory(log)
  /\ log.topics # None
  /\ Len(log.topics[1]) >= 2
  /\ Len(log.topics[1][2]) >= AddressHexLen
  /\ \A i \in 1..AddressHexLen : Last40(log.topics[1][2])[i] \in HexChars

\* the address the first qualifying log carries, null when none qualifies
FirstQualifying(logs) ==
  LET Q == {i \in 1..Len(logs) : Qualifies(logs[i])}
  IN  IF Q = {} THEN None
      ELSE LET i == CHOOSE j \in Q : \A k \in Q : j <= k
           IN  Some(<<"0", "x">> \o Last40(logs[i].topics[1][2]))

\* C12: for every receipt the Scanner returns "0x" followed by the last 40
\* characters of the second topic of the first log, in receipt order, that
\* the factory emitted, that has two topics or more and whose tail is 40
\* hexadecimal characters; foreign logs, logs whose inspection throws, later
\* logs and the topic's padding have no influence.
C12_FirstQualifyingLogWins ==
  (scanOut # None /\ scanFetch.ok /\ scanFetch.receipt # None) =>
    scanOut[1].value = FirstQualifying(LogsOf(scanFetch))

\* a malformed log, then a factory log with unusual padding, then another
\* factory log with another address: the second log's address is returned
C12_Witness ==
  /\ scanOut # None
  /\ Len(LogsOf(scanFetch)) = 3
  /\ LogsOf(scanFetch)[1].address = None
  /\ LogsOf(scanFetch)[2] = Log(FACTORY_ADDRESS, <<TopicSig, Rep("z", 3) \o Addr2>>)
  /\ LogsOf(scanFetch)[3] = Log(sFAC, <<TopicSig, TopicOf(Addr1)>>)
  /\ scanOut[1].value = Some(<<"0", "x">> \o Addr2)

\* two strings are equal when letter case is ignored
EqualIgnoringCase(a, b) ==
  Len(a) = Len(b) /\ \A i \in 1..Len(a) : LowerChar(a[i]) = LowerChar(b[i])

sdef == <<"0", "x", "d", "e", "f">>
sAbC == <<"0", "x", "A", "b", "C">>
CreatorSamples == {sABC, sabc, sAbC, sDEF, sdef, sOther}

\* the pairs of sample queries that differ in letter case and in nothing else
CasePairs ==
  {<<sABC, sabc>>, <<sABC, sAbC>>, <<sAbC, sabc>>, <<sDEF, sdef>>}

\* getPoolsByCreator(c) on the collections as stored
ByCreator(c) ==
  GetResponse([id |-> None, creator |-> Some(c)],
              poolsFile, activitiesFile, membersFile)

\* on the stored pools collection, two creator queries that differ only in
\* letter case get identical answers, and every answer has status 200 and
\* lists exactly the stored pools whose creator equals the query ignoring
\* case, in stored order (the empty list when none does)
StoredAnswersIgnoreCase ==
  /\ \A p \in CasePairs : ByCreator(p[1]) = ByCreator(p[2])
  /\ \A c \in CreatorSamples :
       ByCreator(c) =
         [status |-> 200,
          json |-> SelectSeq(poolsFile,
                             LAMBDA q : EqualIgnoringCase(q.creator_address, c))]

\* a finished GET by creator that answered 200 lists exactly the pools it
\* read whose creator equals its query ignoring case
FinishedAnswersIgnoreCase ==
  \A r \in Reqs :
    (kind[r] = "GET" /\ pc[r] = "done" /\ query[r].creator # None
       /\ resp[r].status = 200) =>
      resp[r].json =
        SelectSeq(loc[r].poolsData,
                  LAMBDA q : EqualIgnoringCase(q.creator_address,
                                               query[r].creator[1]))

C14_CreateThenGetRoundTrip ==
  [][\A r \in Reqs :
       (~Created(r) /\ Created(r)' /\ faults' = 0) =>
         LET got == GetResponse([id |-> Some(resp'[r].json.id), creator |-> None],
                                poolsFile', activitiesFile', membersFile')
         IN  /\ got.status = 200
             /\ \A f \in DOMAIN resp'[r].json : got.json[f] = resp'[r].json[f]]_vars

\* a step of a GET request, and the step with which it answers
GetStep(r) == kind'[r] = "GET" /\ pc'[r] # pc[r]
GetAnswers(r) == kind[r] = "GET" /\ pc[r] # "done" /\ pc'[r] = "done"

\* the GET looks up an id that POOLS_FILE did not hold when the handler read
\* it (nor before, when the handler answers without reading)
LooksUpAbsentId(r) ==
  /\ query'[r].id # None
  /\ \A i \in 1..Len(loc'[r].poolsAtRead) :
       loc'[r].poolsAtRead[i].id # query'[r].id[1]

\* C15 as stated: no step of a GET request changes the pools, members or
\* activities collection, and a lookup of an id that is not stored is
\* answered 404.
C15_GetLeavesStoreAnd404 ==
  [][\A r \in Reqs :
       /\ GetStep(r) => UNCHANGED <<poolsFile, activitiesFile, membersFile>>
       /\ (GetAnswers(r) /\ LooksUpAbsentId(r)) => resp'[r].status = 404]_vars

\* C15 amended: no step of a GET request changes the pools, members or
\* activities collection, and a lookup of an id that is not stored is
\* answered 404, or 500 when the data directory could not be created.
C15_GetLeavesStore ==
  [][\A r \in Reqs :
       /\ GetStep(r) => UNCHANGED <<poolsFile, activitiesFile, membersFile>>
       /\ (GetAnswers(r) /\ LooksUpAbsentId(r)) =>
            resp'[r].status = IF loc'[r].dirFailed THEN 500 ELSE 404]_vars

\* a lookup of an id that is not stored was answered 404 while the store
\* held a pool, an activity and a member list
C15_Witness ==
  \E r \in Reqs :
    /\ kind[r] = "GET" /\ pc[r] = "done"
    /\ query[r].id # None
    /\ resp[r].status = 404
    /\ loc[r].poolsAtRead # <<>>
    /\ poolsFile = loc[r].poolsAtRead
    /\ activitiesFile # <<>>
    /\ membersFile # EmptyMap

\* the body supplies no member: the list is absent or empty
NoMembers(b) == "members" \notin b.keys \/ Len(b.members) = 0

\* the step in which a create request builds its records, and its write steps
Builds(r) ==
  kind[r] = "POST" /\ pc[r] = "readMembers" /\ pc'[r] = "writePools"
Writes(r) ==
  /\ kind[r] = "POST"
  /\ pc[r] \in {"writePools", "writeActivities", "writeMembers"}
  /\ pc'[r] # pc[r]

\* a write step stores the handler's copy of a collection or nothing
StoresItsCopies(r) ==
  /\ poolsFile' \in {poolsFile, loc[r].poolsData}
  /\ activitiesFile' \in {activitiesFile, loc[r].poolActivityData}
  /\ membersFile' \in {membersFile, loc[r].poolMembersData}
  /\ loc'[r].poolsData = loc[r].poolsData
  /\ loc'[r].poolActivityData = loc[r].poolActivityData
  /\ loc'[r].poolMembersData = loc[r].poolMembersData

\* C16: a valid create request pushes its pool onto the pools it read and
\* later stores exactly its copies.  When it supplies no member (absent or
\* empty list) the pool has members_count 0, the activities it will write are
\* those it read and the members-by-pool map it will write is the one it
\* read.  The activities it will write are those it read followed by one
\* 'created' record for the new pool exactly when the member list is non-empty.
C16_NoMembersNoActivity ==
  [][\A r \in Reqs :
       /\ Builds(r) =>
            LET new == loc'[r].newPool[1]
                before == loc[r].poolActivityData
                after == loc'[r].poolActivityData
            IN  /\ loc'[r].poolsData = Append(loc[r].poolsData, new)
                /\ NoMembers(body[r]) =>
                     /\ new.members_count = 0
                     /\ after = before
                     /\ loc'[r].poolMembersData \in {membersFile, EmptyMap}
                /\ ~NoMembers(body[r]) =>
                     /\ Len(after) = Len(before) + 1
                     /\ SubSeq(after, 1, Len(before)) = before
                     /\ after[Len(after)].activity_type = "created"
                     /\ after[Len(after)].pool_id = new.id
       /\ Writes(r) => StoresItsCopies(r)]_vars

\* one request created a pool without members, the other a pool with a
\* member: a single activity and a single member list are stored
C16_Witness ==
  \E r, q \in Reqs :
    /\ Created(r) /\ Created(q)
    /\ "members" \in body[r].keys /\ body[r].members = <<>>
    /\ ~NoMembers(body[q])
    /\ Len(poolsFile) = 2
    /\ \E i \in 1..2 :
         poolsFile[i].id = resp[r].json.id /\ poolsFile[i].members_count = 0
    /\ Len(activitiesFile) = 1
    /\ activitiesFile[1].pool_id = resp[q].json.id
    /\ DOMAIN membersFile = {resp[q].json.id}

\* the extractPoolAddress calls the hook can make
PossibleCalls == [hash : Hashes, n : 1..(MaxClientChanges + 1)]

\* C17 as stated: every Scanner call completes; when one completes,
\* poolAddress is what it returned for its hash (the address in the receipt,
\* or null); and while isSuccess is true for a hash whose receipt yields
\* null, poolAddress is null.
C17_AddressFollowsScan ==
  /\ \A c \in PossibleCalls : (c \in calls) ~> (c \notin calls)
  /\ [][\A c \in calls \ calls' : poolAddress' \in {ScanOf(c.hash), None}]_vars
  /\ []((isSuccess /\ hash # None /\ ScanOf(hash[1]) = None)
          => poolAddress = None)

\* ms holds one record per address of the body, in the body's order: the
\* record of ordinal i (from 0) has id member_<poolId>_<i>, the i-th address
\* in lower case and status pending; and the pool counts Len(ms) members
OneRecordPerAddress(ms, b, pool) ==
  /\ Len(ms) = Len(b.members)
  /\ pool.members_count = Len(ms)
  /\ \A i \in 1..Len(ms) :
       /\ ms[i].id = <<"member", pool.id, i - 1>>
       /\ EqualIgnoringCase(ms[i].member_address, b.members[i])
       /\ \A j \in 1..Len(ms[i].member_address) :
            ms[i].member_address[j] = LowerChar(ms[i].member_address[j])
       /\ ms[i].status = "pending"

\* C18: a create request with a non-empty member list builds, under the new
\* pool's id, one member record per supplied address in the supplied order,
\* with id member_<poolId>_<ordinal>, the address in lower case and status
\* pending, members_count being the length of the sequence; and that
\* sequence is what the members collection holds under that id once the
\* request's write of the collection has succeeded.
C18_MemberSequence ==
  [][\A r \in Reqs :
       /\ (Builds(r) /\ ~NoMembers(body[r])) =>
            /\ loc'[r].newPool[1].id \in DOMAIN loc'[r].poolMembersData
            /\ OneRecordPerAddress(
                 loc'[r].poolMembersData[loc'[r].newPool[1].id],
                 body[r], loc'[r].newPool[1])
       /\ (~Created(r) /\ Created(r)' /\ ~NoMembers(body[r])) =>
            /\ resp'[r].json.id \in DOMAIN membersFile'
            /\ OneRecordPerAddress(membersFile'[resp'[r].json.id],
                                   body[r], resp'[r].json)]_vars

\* a pool created with the members 0xA1 and 0xb2 has its two records stored
C18_Witness ==
  \E r \in Reqs :
    /\ Created(r)
    /\ body[r].members = <<sA1, sB2>>
    /\ resp[r].json.id \in DOMAIN membersFile
    /\ Len(membersFile[resp[r].json.id]) = 2
    /\ membersFile[resp[r].json.id][1].member_address = <<"0", "x", "a", "1">>
    /\ membersFile[resp[r].json.id][2].id = <<"member", resp[r].json.id, 1>>
    /\ resp[r].json.members_count = 2

\* the round duration the table gives for a keyword, 604800 for any other
TableDuration(k) ==
  CASE k = sDaily -> 86400
    [] k = sWeekly -> 604800
    [] k = sBiweekly -> 1209600
    [] k = sMonthly -> 2592000
    [] OTHER -> 604800

\* C19 as stated: create() submits as round duration the table's value for
\* the frequency keyword (daily 86400, weekly 604800, biweekly 1209600,
\* monthly 2592000), and 604800 for every keyword that is not in the table.
C19_RoundDurationFromTable ==
  submitted # None =>
    /\ submitted[1].k = "return"
    /\ submitted[1].v = TableDuration(frequency)

====
